---- MODULE Spec2Model ----
(***************************************************************************)
(* Model of pdfparse.py: font histogram (fonts), size tagging (font_tags), *)
(* block assembly (headers_para), segmentation (extract_data), schema      *)
(* extraction (data_tojson) and the driver (main).                         *)
(*                                                                         *)
(* A Python str is a sequence of one-character strings.  A float font size *)
(* is an integer number of tenths of a point (105 is 10.5).                *)
(***************************************************************************)
EXTENDS Integers, Sequences, FiniteSets, TLC

\* ------------------------------------------------------------------ bounds

\* Spans of a document of the driver (Spec).
MaxSpans == 4
\* Spans of a document of the span-by-span assembler (SpecAssemble).
MaxRunSpans == 3
\* Spans of a document of the tagger (SpecTags).
MaxTagSpans == 4
\* Lines of a sequence given to extract_data directly (SpecSeg).
MaxData == 4
\* Lines after the heading of a group given to data_tojson directly (SpecJson).
MaxGroupLines == 3

\* ------------------------------------------------------ local variables

Only(S) == CHOOSE x \in S : TRUE

\* F of the value of x: x is evaluated once and F reads the value, the way a
\* Python local is assigned once and then read
Bind(x, F(_)) == Only({F(v) : v \in {x}})

\* ------------------------------------------------- Python str operations

Min(a, b) == IF a < b THEN a ELSE b

Max(a, b) == IF a > b THEN a ELSE b

\* s[a:b] for a >= 0; a negative b counts from the end
Slice(s, a, b) ==
    LET n  == Len(s)
        lo == Min(a, n)
        hi == IF b < 0 THEN Max(n + b, 0) ELSE Min(b, n)
    IN  SubSeq(s, lo + 1, hi)

\* s[a:]
SliceFrom(s, a) == SubSeq(s, Min(a, Len(s)) + 1, Len(s))

\* sub at 0-based offset i of s
StartsAt(s, sub, i) ==
    /\ i + Len(sub) <= Len(s)
    /\ \A k \in 1..Len(sub) : s[i + k] = sub[k]

\* sub in s
Contains(s, sub) == \E i \in 0..(Len(s) - Len(sub)) : StartsAt(s, sub, i)

\* s.find(sub): the lowest 0-based offset, -1 when there is none
Find(s, sub) ==
    IF Contains(s, sub)
    THEN CHOOSE i \in 0..(Len(s) - Len(sub)) :
             /\ StartsAt(s, sub, i)
             /\ \A j \in 0..(i - 1) : ~StartsAt(s, sub, j)
    ELSE -1

\* s.replace(sub, rep), sub not empty: every non-overlapping occurrence, left to right
RECURSIVE Replace(_, _, _)
Replace(str, sub, rep) ==
    Bind(str, LAMBDA s :
        Bind(Find(s, sub), LAMBDA i :
            IF i < 0 THEN s
            ELSE SubSeq(s, 1, i) \o rep
                     \o Replace(SliceFrom(s, i + Len(sub)), sub, rep)))

\* s.split(c) for a one-character separator c
RECURSIVE Split(_, _)
Split(str, c) ==
    Bind(str, LAMBDA s :
        Bind(Find(s, <<c>>), LAMBDA i :
            IF i < 0 THEN <<s>>
            ELSE <<SubSeq(s, 1, i)>> \o Split(SliceFrom(s, i + 1), c)))

WhiteSpace == {" "}

\* s.strip(): a str that is empty after stripping is falsy
RECURSIVE Strip(_)
Strip(s) ==
    IF s = <<>> THEN s
    ELSE IF s[1] \in WhiteSpace THEN Strip(Tail(s))
    ELSE IF s[Len(s)] \in WhiteSpace THEN Strip(SubSeq(s, 1, Len(s) - 1))
    ELSE s

DigitChars == <<"0", "1", "2", "3", "4", "5", "6", "7", "8", "9">>

IsDigit(c) == \E d \in 1..10 : DigitChars[d] = c

DigitVal(c) == (CHOOSE d \in 1..10 : DigitChars[d] = c) - 1

\* "{0}".format(n) for an int n >= 0
RECURSIVE FormatInt(_)
FormatInt(n) ==
    IF n < 10 THEN <<DigitChars[n + 1]>>
    ELSE FormatInt(n \div 10) \o <<DigitChars[(n % 10) + 1]>>

\* int of a str of digits
RECURSIVE ParseInt(_)
ParseInt(s) ==
    IF s = <<>> THEN 0
    ELSE 10 * ParseInt(SubSeq(s, 1, Len(s) - 1)) + DigitVal(s[Len(s)])

\* "{0}".format(size) for a float: 105 (10.5) gives "10.5", 100 gives "10.0"
FormatSize(size) == FormatInt(size \div 10) \o <<".">> \o FormatInt(size % 10)

\* float(font_size), in tenths
ParseFloat(s) ==
    LET dot == Find(s, <<".">>)
    IN  IF dot < 0 THEN 10 * ParseInt(s)
        ELSE 10 * ParseInt(SubSeq(s, 1, dot)) + ParseInt(SliceFrom(s, dot + 1))

\* ------------------------------------------------------------- documents

(* A document is a sequence of pages, a page a sequence of blocks           *)
(* [type, lines], a line a sequence of spans [text, size, font].  The       *)
(* documents of a specification are built from a flat sequence of items:    *)
(* a span and the boundary that follows it ("none": the line goes on,       *)
(* "line": the line ends, "block": the line and the block end).             *)
RECURSIVE Build(_, _, _, _)
Build(items, blocks, lines, spans) ==
    IF items = <<>> THEN blocks
    ELSE LET it  == Head(items)
             sp  == Append(spans, [text |-> it.text, size |-> it.size, font |-> "Helv"])
         IN  CASE it.brk = "none"  -> Build(Tail(items), blocks, lines, sp)
               [] it.brk = "line"  -> Build(Tail(items), blocks, Append(lines, sp), <<>>)
               [] it.brk = "block" ->
                    Build(Tail(items),
                          Append(blocks, [type |-> 0, lines |-> Append(lines, sp)]),
                          <<>>, <<>>)

Breaks == {"none", "line", "block"}

\* every document of at most n spans drawn from SpanSet, with the boundaries
\* of BreakSet between them, on one page
Docs(SpanSet, BreakSet, n) ==
    LET Items == [text : {s.text : s \in SpanSet}, size : {s.size : s \in SpanSet},
                  brk : BreakSet]
        Ok(it) == \E s \in SpanSet : s.text = it.text /\ s.size = it.size
        Flat   == UNION {[1..k -> {it \in Items : Ok(it)}] : k \in 1..n}
    IN  {<< <<>> >>} \cup
        {<<Build(f, <<>>, <<>>, <<>>)>> : f \in {g \in Flat : g[Len(g)].brk = "block"}}

RECURSIVE Concat(_)
Concat(ss) == IF ss = <<>> THEN <<>> ELSE Head(ss) \o Concat(Tail(ss))

IsTextBlock(b) == b.type = 0

\* for page in doc / for b in blocks / if b['type'] == 0
TextBlocks(d) == SelectSeq(Concat(d), IsTextBlock)

\* for l in b["lines"] / for s in l["spans"], over the whole document
SpansOf(d) ==
    LET bs == TextBlocks(d)
        ls == Concat([i \in 1..Len(bs) |-> bs[i].lines])
    IN  Concat(ls)

\* ------------------------------------------------------------------ fonts

\* font_counts[identifier] = font_counts.get(identifier, 0) + 1 on a dict that
\* keeps insertion order: a sequence of <<identifier, count>>
CountUp(counts, id) ==
    IF \E i \in 1..Len(counts) : counts[i][1] = id
    THEN [i \in 1..Len(counts) |->
             IF counts[i][1] = id THEN <<id, counts[i][2] + 1>> ELSE counts[i]]
    ELSE Append(counts, <<id, 1>>)

\* the loop body of fonts for one span, granularity False
FontsSpan(acc, s) ==
    LET identifier == FormatSize(s.size)
    IN  [styles |-> (identifier :> [size |-> s.size, font |-> s.font]) @@ acc.styles,
         font_counts |-> CountUp(acc.font_counts, identifier)]

RECURSIVE FontsLoop(_, _)
FontsLoop(acc, spans) ==
    IF spans = <<>> THEN acc
    ELSE Bind(FontsSpan(acc, Head(spans)), LAMBDA a : FontsLoop(a, Tail(spans)))

\* x placed behind every item whose count is at least its own
RECURSIVE InsertByCount(_, _)
InsertByCount(sorted, x) ==
    IF sorted = <<>> THEN <<x>>
    ELSE IF Head(sorted)[2] >= x[2] THEN <<Head(sorted)>> \o InsertByCount(Tail(sorted), x)
    ELSE <<x>> \o sorted

\* sorted(font_counts.items(), key=lambda item: item[1], reverse=True): stable
RECURSIVE SortByCount(_)
SortByCount(items) ==
    IF items = <<>> THEN <<>>
    ELSE Bind(SortByCount(SubSeq(items, 1, Len(items) - 1)),
              LAMBDA sorted : InsertByCount(sorted, items[Len(items)]))

\* fonts(doc): [raised, font_counts, styles]
fonts(d) ==
    Bind(FontsLoop([styles |-> <<>>, font_counts |-> <<>>], SpansOf(d)), LAMBDA acc :
        Bind(SortByCount(acc.font_counts), LAMBDA fc :
            [raised |-> Len(fc) < 1, font_counts |-> fc, styles |-> acc.styles]))

\* -------------------------------------------------------------- font_tags

RECURSIVE InsertDesc(_, _)
InsertDesc(sorted, x) ==
    IF sorted = <<>> THEN <<x>>
    ELSE IF Head(sorted) >= x THEN <<Head(sorted)>> \o InsertDesc(Tail(sorted), x)
    ELSE <<x>> \o sorted

\* font_sizes.sort(reverse=True)
RECURSIVE SortDesc(_)
SortDesc(xs) ==
    IF xs = <<>> THEN <<>>
    ELSE Bind(SortDesc(SubSeq(xs, 1, Len(xs) - 1)),
              LAMBDA sorted : InsertDesc(sorted, xs[Len(xs)]))

\* '<h{0}>'.format(idx), '<s{0}>'.format(idx)
HeadTag(idx) == <<"<", "h">> \o FormatInt(idx) \o <<">">>

SubTag(idx) == <<"<", "s">> \o FormatInt(idx) \o <<">">>

ParaTag == <<"<", "p", ">">>

\* TagSize with "if size >= p_size" for the heading test
TagSize_HeadingAtParagraph(st, size, p_size) ==
    LET idx1 == st.idx + 1
        idx2 == IF size = p_size THEN 0 ELSE idx1
        t1   == IF size = p_size THEN (size :> ParaTag) @@ st.size_tag ELSE st.size_tag
        t2   == IF size >= p_size THEN (size :> HeadTag(idx2)) @@ t1
                ELSE IF size < p_size THEN (size :> SubTag(idx2)) @@ t1
                ELSE t1
    IN  [idx |-> idx2, size_tag |-> t2]

\* TagSize without "idx = 0" at the paragraph size
TagSize_NoReset(st, size, p_size) ==
    LET idx1 == st.idx + 1
        t1   == IF size = p_size THEN (size :> ParaTag) @@ st.size_tag ELSE st.size_tag
        t2   == IF size > p_size THEN (size :> HeadTag(idx1)) @@ t1
                ELSE IF size < p_size THEN (size :> SubTag(idx1)) @@ t1
                ELSE t1
    IN  [idx |-> idx1, size_tag |-> t2]

\* the loop body of font_tags for one size: [idx, size_tag]
TagSize(st, size, p_size) ==
    LET idx1 == st.idx + 1
        idx2 == IF size = p_size THEN 0 ELSE idx1
        t1   == IF size = p_size THEN (size :> ParaTag) @@ st.size_tag ELSE st.size_tag
        t2   == IF size > p_size THEN (size :> HeadTag(idx2)) @@ t1
                ELSE IF size < p_size THEN (size :> SubTag(idx2)) @@ t1
                ELSE t1
    IN  [idx |-> idx2, size_tag |-> t2]

RECURSIVE TagLoop(_, _, _)
TagLoop(st, sizes, p_size) ==
    IF sizes = <<>> THEN st
    ELSE Bind(TagSize(st, Head(sizes), p_size),
              LAMBDA a : TagLoop(a, Tail(sizes), p_size))

\* font_tags(font_counts, styles)
font_tags(fc, st) ==
    LET p_style == st[fc[1][1]]
        p_size  == p_style.size
    IN  Bind(SortDesc([i \in 1..Len(fc) |-> ParseFloat(fc[i][1])]), LAMBDA font_sizes :
            TagLoop([idx |-> 0, size_tag |-> <<>>], font_sizes, p_size).size_tag)

\* ----------------------------------------------------------- headers_para

Pipe == "|"

\* all((c == "|") for c in block_string)
AllPipes(str) == \A k \in 1..Len(str) : str[k] = Pipe

\* the walk of headers_para over the document, in order: entering a text
\* block, a span, the end of a line, the end of a block
LineEvents(l) == [i \in 1..Len(l) |-> [kind |-> "span", s |-> l[i]]]
                     \o <<[kind |-> "eol", s |-> <<>>]>>

BlockEvents(b) ==
    <<[kind |-> "block", s |-> <<>>]>>
        \o Concat([i \in 1..Len(b.lines) |-> LineEvents(b.lines[i])])
        \o <<[kind |-> "eob", s |-> <<>>]>>

Events(d) ==
    LET bs == TextBlocks(d)
    IN  Concat([i \in 1..Len(bs) |-> BlockEvents(bs[i])])

\* header_para = [], first = True, previous_s = {}
HPInit == [header_para |-> <<>>, first |-> TRUE, previous_s |-> <<>>,
           block_string |-> <<>>]

\* block_string = ""
HPEnterBlock(st) == [st EXCEPT !.block_string = <<>>]

\* the same-size branch: the pipes-only test is an if, the next test an if/else
HPSameSize(block_string, tagged, text) ==
    LET b1 == IF block_string # <<>> /\ AllPipes(block_string) THEN tagged
              ELSE block_string
    IN  IF b1 = <<>> THEN tagged ELSE b1 \o <<" ">> \o text

\* the body of "for s in l['spans']"
HPSpan(st, s, size_tag) ==
    IF Strip(s.text) = <<>> THEN st
    ELSE LET tagged == size_tag[s.size] \o s.text
         IN  IF st.first
             THEN [st EXCEPT !.previous_s = s, !.first = FALSE, !.block_string = tagged]
             ELSE IF s.size = st.previous_s.size
             THEN [st EXCEPT !.block_string = HPSameSize(st.block_string, tagged, s.text),
                             !.previous_s = s]
             ELSE [st EXCEPT !.header_para = Append(st.header_para, st.block_string),
                             !.block_string = tagged,
                             !.previous_s = s]

\* block_string += "|"
HPEndLine(st) == [st EXCEPT !.block_string = st.block_string \o <<Pipe>>]

\* header_para.append(block_string)
HPEndBlock(st) == [st EXCEPT !.header_para = Append(st.header_para, st.block_string)]

HPStep(st, ev, size_tag) ==
    CASE ev.kind = "block" -> HPEnterBlock(st)
      [] ev.kind = "span"  -> HPSpan(st, ev.s, size_tag)
      [] ev.kind = "eol"   -> HPEndLine(st)
      [] ev.kind = "eob"   -> HPEndBlock(st)

RECURSIVE HPLoop(_, _, _)
HPLoop(st, evs, size_tag) ==
    IF evs = <<>> THEN st
    ELSE Bind(HPStep(st, Head(evs), size_tag),
              LAMBDA a : HPLoop(a, Tail(evs), size_tag))

\* headers_para(doc, size_tag)
headers_para(d, size_tag) ==
    Bind(Events(d), LAMBDA evs : HPLoop(HPInit, evs, size_tag).header_para)

\* ----------------------------------------------------------- extract_data

TagH  == <<"<", "h">>
TagH1 == <<"<", "h", "1", ">">>
TagH2 == <<"<", "h", "2", ">">>

\* '<h1>' in i or '<h2>' in i or '<p>' in i
Kept(i) == Contains(i, TagH1) \/ Contains(i, TagH2) \/ Contains(i, ParaTag)

\* the first loop of extract_data
RECURSIVE IndexLoop(_, _, _)
IndexLoop(dat, idx, index_list) ==
    IF idx >= Len(dat) THEN index_list
    ELSE LET a == IF Contains(dat[idx + 1], TagH) THEN Append(index_list, idx)
                  ELSE index_list
             b == IF idx = Len(dat) - 1 THEN Append(a, idx + 1) ELSE a
         IN  IndexLoop(dat, idx + 1, b)

\* list.remove(x): the first item equal to x goes
RemoveFirst(list, x) ==
    LET k == CHOOSE j \in 1..Len(list) :
                 list[j] = x /\ \A m \in 1..(j - 1) : list[m] # x
    IN  SubSeq(list, 1, k - 1) \o SubSeq(list, k + 1, Len(list))

\* "for i in sub_list: if not (...): sub_list.remove(i)": the iterator keeps a
\* position into the list that is being shortened
RECURSIVE FilterLoop(_, _)
FilterLoop(sub_list, pos) ==
    IF pos >= Len(sub_list) THEN sub_list
    ELSE LET i == sub_list[pos + 1]
         IN  IF Kept(i) THEN FilterLoop(sub_list, pos + 1)
             ELSE Bind(RemoveFirst(sub_list, i), LAMBDA rest : FilterLoop(rest, pos + 1))

\* extract_data(data)
extract_data(dat) ==
    Bind(IndexLoop(dat, 0, <<>>), LAMBDA index_list :
        [i \in 1..(Len(index_list) - 1) |->
            Bind(SubSeq(dat, index_list[i] + 1, index_list[i + 1]),
                 LAMBDA sub_list : FilterLoop(sub_list, 0))])

\* ------------------------------------------------------------ data_tojson

\* months = ['January', ..., 'December']
months ==
    <<<<"J", "a", "n", "u", "a", "r", "y">>,
      <<"F", "e", "b", "r", "u", "a", "r", "y">>,
      <<"M", "a", "r", "c", "h">>,
      <<"A", "p", "r", "i", "l">>,
      <<"M", "a", "y">>,
      <<"J", "u", "n", "e">>,
      <<"J", "u", "l", "y">>,
      <<"A", "u", "g", "u", "s", "t">>,
      <<"S", "e", "p", "t", "e", "m", "b", "e", "r">>,
      <<"O", "c", "t", "o", "b", "e", "r">>,
      <<"N", "o", "v", "e", "m", "b", "e", "r">>,
      <<"D", "e", "c", "e", "m", "b", "e", "r">>>>

\* the literal alternatives of the date pattern, in the pattern's order; the
\* pattern's first alternative, \d{2}, is TwoDigits
PatternWords ==
    <<<<"J", "a", "n", "u", "a", "r", "y">>,
      <<"J", "a", "n">>,
      <<"F", "e", "b", "r", "u", "a", "r", "y">>,
      <<"F", "e", "b">>,
      <<"M", "a", "r", "c", "h">>,
      <<"M", "a", "r">>,
      <<"A", "p", "r", "i", "l">>,
      <<"A", "p", "r">>,
      <<"M", "a", "y">>,
      <<"M", "a", "y">>,
      <<"J", "u", "n", "e">>,
      <<"J", "u", "n">>,
      <<"J", "u", "l", "y">>,
      <<"J", "u", "l">>,
      <<"A", "u", "g", "u", "s", "t">>,
      <<"A", "u", "g">>,
      <<"S", "e", "p", "t", "e", "m", "b", "e", "r">>,
      <<"S", "e", "p">>,
      <<"O", "c", "t", "o", "b", "e", "r">>,
      <<"O", "c", "t">>,
      <<"N", "o", "v", "e", "m", "b", "e", "r">>,
      <<"N", "o", "v">>,
      <<"D", "e", "c", "e", "m", "b", "e", "r">>,
      <<"D", "e", "c">>>>

TwoDigits(str, pos) ==
    /\ pos + 2 <= Len(str)
    /\ IsDigit(str[pos + 1])
    /\ IsDigit(str[pos + 2])

\* how many of the four characters from 0-based offset pos on are digits in a row
DigitRun(str, pos) ==
    IF \E k \in 1..4 : pos + k > Len(str) \/ ~IsDigit(str[pos + k])
    THEN (CHOOSE k \in 1..4 : (pos + k > Len(str) \/ ~IsDigit(str[pos + k]))
                              /\ \A j \in 1..(k - 1) : pos + j <= Len(str)
                                                       /\ IsDigit(str[pos + j])) - 1
    ELSE 4

\* [\/ ]\d{2,4} at pos: its length, 0 when it does not match
DateTail(str, pos) ==
    IF pos + 1 <= Len(str) /\ str[pos + 1] \in {"/", " "} /\ DigitRun(str, pos + 1) >= 2
    THEN 1 + DigitRun(str, pos + 1)
    ELSE 0

\* the length of alternative k (0 is \d{2}) at pos when the whole pattern
\* matches with it, else 0
AltMatch(str, pos, k) ==
    LET len == IF k = 0 THEN (IF TwoDigits(str, pos) THEN 2 ELSE 0)
               ELSE IF StartsAt(str, PatternWords[k], pos) THEN Len(PatternWords[k])
               ELSE 0
    IN  IF len > 0 /\ DateTail(str, pos + len) > 0
        THEN len + DateTail(str, pos + len) ELSE 0

\* the pattern at pos: the first alternative that matches decides
MatchLen(str, pos) ==
    IF \E k \in 0..Len(PatternWords) : AltMatch(str, pos, k) > 0
    THEN AltMatch(str, pos,
                  CHOOSE k \in 0..Len(PatternWords) :
                      /\ AltMatch(str, pos, k) > 0
                      /\ \A j \in 0..(k - 1) : AltMatch(str, pos, j) = 0)
    ELSE 0

\* re.findall(pattern, i): each item is group 1 of a match, matches[n][0]
RECURSIVE FindAll(_, _)
FindAll(str, from) ==
    Bind(from, LAMBDA pos :
        IF pos >= Len(str) THEN <<>>
        ELSE Bind(MatchLen(str, pos), LAMBDA m :
                 IF m > 0
                 THEN <<SubSeq(str, pos + 1, pos + m)>> \o FindAll(str, pos + m)
                 ELSE FindAll(str, pos + 1)))

\* the keys of json_data that are literals of the code
KeyName    == <<"n", "a", "m", "e">>
KeyPhone   == <<"p", "h", "o", "n", "e">>
KeyEmail   == <<"e", "m", "a", "i", "l">>
KeyAddress == <<"a", "d", "d", "r", "e", "s", "s">>
Skills     ==
    <<"S", "k", "i", "l", "l", "s", " ", "&", " ", "I", "n", "t", "e", "r", "e", "s", "t", "s">>

\* any(month in i for month in months)
HasMonth(i) == \E m \in 1..Len(months) : Contains(i, months[m])

\* json_data[key][date_period][field] = v
SetField(json, key, date_period, field, v) ==
    LET section == json[key]
        entry   == section[date_period]
    IN  (key :> ((date_period :> ((field :> v) @@ entry)) @@ section)) @@ json

\* json_data[key][date_period] = {}
NewPeriod(json, key, date_period) ==
    (key :> ((date_period :> <<>>) @@ json[key])) @@ json

\* "for skill in skills_list[:-1]": skill.split(':')[1] raises when the
\* fragment has no colon
RECURSIVE SkillsLoop(_, _, _)
SkillsLoop(st, key, skills) ==
    IF skills = <<>> \/ st.raised THEN st
    ELSE Bind(Split(Head(skills), ":"), LAMBDA parts :
             IF Len(parts) < 2 THEN [st EXCEPT !.raised = TRUE]
             ELSE Bind([st EXCEPT !.json = (key :> ((parts[1] :> parts[2]) @@ st.json[key]))
                                               @@ st.json],
                       LAMBDA a : SkillsLoop(a, key, Tail(skills))))

\* the month branch up to the pattern: the period is opened, the one before
\* it closed
OpenPeriod(st, key) ==
    IF st.first_date
    THEN [st EXCEPT !.first_date = FALSE,
                    !.json = NewPeriod(st.json, key, st.date_period)]
    ELSE [st EXCEPT !.json = NewPeriod(SetField(st.json, key, st.date_period,
                                                "details", st.value),
                                       key, st.date_period + 1),
                    !.value = <<>>,
                    !.date_period = st.date_period + 1]

\* TakeDates that does not store the date of a line with one match
TakeDates_DropSingle(st, key, i) ==
    Bind(FindAll(i, 0), LAMBDA matches :
        IF Len(matches) > 1
        THEN [raised |-> FALSE,
              json |-> SetField(st.json, key, st.date_period, "date",
                                matches[1] \o <<" ", "-", " ">> \o matches[2]),
              i |-> Replace(Replace(i, matches[1], <<>>), matches[2], <<>>)]
        ELSE IF Len(matches) = 0
        THEN [raised |-> TRUE, json |-> st.json, i |-> i]
        ELSE [raised |-> FALSE,
              json |-> st.json,
              i |-> Replace(i, matches[1], <<>>)])

\* the dates of a month line: [raised, json, i], i being the line with the
\* matched text taken out; matches[0] raises when nothing matched
TakeDates(st, key, i) ==
    Bind(FindAll(i, 0), LAMBDA matches :
        IF Len(matches) > 1
        THEN [raised |-> FALSE,
              json |-> SetField(st.json, key, st.date_period, "date",
                                matches[1] \o <<" ", "-", " ">> \o matches[2]),
              i |-> Replace(Replace(i, matches[1], <<>>), matches[2], <<>>)]
        ELSE IF Len(matches) = 0
        THEN [raised |-> TRUE, json |-> st.json, i |-> i]
        ELSE [raised |-> FALSE,
              json |-> SetField(st.json, key, st.date_period, "date", matches[1]),
              i |-> Replace(i, matches[1], <<>>)])

\* i.replace('|', '').replace('    ','')[3:]
Details(i) ==
    Bind(Replace(Replace(i, <<Pipe>>, <<>>), <<" ", " ", " ", " ">>, <<>>),
         LAMBDA stripped : SliceFrom(stripped, 3))

\* the '<p>' branch of a line of a section that is not the skills section
DatedLine(st, key, i) ==
    IF HasMonth(i)
    THEN Bind(OpenPeriod(st, key), LAMBDA opened :
             Bind(TakeDates(opened, key, i), LAMBDA dated :
                 IF dated.raised THEN [st EXCEPT !.raised = TRUE]
                 ELSE [opened EXCEPT !.json = dated.json,
                                     !.value = opened.value \o Details(dated.i)]))
    ELSE [st EXCEPT !.value = st.value \o Details(i)]

\* LastLine with the 'details' assignment inside "if date_period not in ..."
LastLine_OnlyNew(st, key, idx, n) ==
    IF idx = n - 2 /\ key # Skills /\ ~st.raised /\ st.date_period \notin DOMAIN st.json[key]
    THEN [st EXCEPT !.json = SetField(NewPeriod(st.json, key, st.date_period),
                                      key, st.date_period, "details", st.value)]
    ELSE st

\* "if idx == len(data)-2 and key != 'Skills & Interests'"
LastLine(st, key, idx, n) ==
    IF idx = n - 2 /\ key # Skills /\ ~st.raised
    THEN Bind(IF st.date_period \in DOMAIN st.json[key] THEN st.json
              ELSE NewPeriod(st.json, key, st.date_period),
              LAMBDA j : [st EXCEPT !.json = SetField(j, key, st.date_period,
                                                      "details", st.value)])
    ELSE st

\* the body of "for idx,i in enumerate(data[1:])"
SectionLine(st, key, i, idx, n) ==
    Bind(IF ~Contains(i, ParaTag) THEN st
         ELSE IF key = Skills
         THEN Bind(Split(SliceFrom(i, 3), Pipe), LAMBDA skills_list :
                  SkillsLoop(st, key, SubSeq(skills_list, 1, Len(skills_list) - 1)))
         ELSE DatedLine(st, key, i),
         LAMBDA a : LastLine(a, key, idx, n))

RECURSIVE SectionLoop(_, _, _, _)
SectionLoop(st, key, group, idx) ==
    IF idx > Len(group) - 2 \/ st.raised THEN st
    ELSE Bind(SectionLine(st, key, group[idx + 2], idx, Len(group)),
              LAMBDA a : SectionLoop(a, key, group, idx + 1))

\* the '<h2>' branch: [raised, json]
Section(json, group) ==
    Bind(Slice(group[1], 4, Find(group[1], <<Pipe>>)), LAMBDA key :
        Bind(SectionLoop([json |-> (key :> <<>>) @@ json, value |-> <<>>,
                          date_period |-> 1, first_date |-> TRUE, raised |-> FALSE],
                         key, group, 0),
             LAMBDA st : [raised |-> st.raised, json |-> st.json]))

\* data[0][4:data[0].find('|')]
Name(group) == Slice(group[1], 4, Find(group[1], <<Pipe>>))

\* the '<h1>' branch: data[2], data[3] and the second part of data[2] raise
\* when they are not there
Identity(json, group) ==
    IF Len(group) < 4 \/ Len(Split(group[3], Pipe)) < 2
    THEN [raised |-> TRUE, json |-> json]
    ELSE [raised |-> FALSE,
          json |->
              (KeyAddress :> Slice(group[4], 3, Find(group[4], <<Pipe>>)))
              @@ (KeyEmail :> Replace(Split(group[3], Pipe)[2], <<" ">>, <<>>))
              @@ (KeyPhone :> Replace(SliceFrom(Split(group[3], Pipe)[1], 3), <<" ">>, <<>>))
              @@ (KeyName :> Name(group))
              @@ json]

\* the body of "for data in data_list"; data[0] raises on an empty group
Group(res, group) ==
    IF res.raised THEN res
    ELSE IF group = <<>> THEN [res EXCEPT !.raised = TRUE]
    ELSE IF Contains(group[1], TagH1) THEN Identity(res.json, group)
    ELSE IF Contains(group[1], TagH2) THEN Section(res.json, group)
    ELSE res

RECURSIVE GroupLoop(_, _)
GroupLoop(res, groups) ==
    IF groups = <<>> THEN res
    ELSE Bind(Group(res, Head(groups)), LAMBDA a : GroupLoop(a, Tail(groups)))

\* data_tojson(data_list): [raised, json]
data_tojson(groups) == GroupLoop([raised |-> FALSE, json |-> <<>>], groups)

\* ------------------------------------------------------------------ state

VARIABLES
    pc,              \* the call main (or the caller of one function) is at
    doc,             \* fitz.open(filename)
    font_counts,     \* main's font_counts
    styles,          \* main's styles
    tags,            \* main's tags
    data,            \* main's data: the list headers_para returns
    extracted_data,  \* main's extracted_data
    json_data,       \* main's json_data
    output_file,     \* "untouched", "open" (created or truncated), "written"
    raised,          \* the function whose exception ended the run, or "none"
    hp,              \* the locals of headers_para while it runs span by span
    hp_pos           \* how many steps of its walk headers_para has taken

vars == <<pc, doc, font_counts, styles, tags, data, extracted_data, json_data,
          output_file, raised, hp, hp_pos>>

Start(d, at, dat, ext) ==
    /\ pc = at
    /\ doc = d
    /\ font_counts = <<>>
    /\ styles = <<>>
    /\ tags = <<>>
    /\ data = dat
    /\ extracted_data = ext
    /\ json_data = <<>>
    /\ output_file = "untouched"
    /\ raised = "none"
    /\ hp = HPInit
    /\ hp_pos = 0

\* ------------------------------------------------------------------- main

\* font_counts, styles = fonts(doc)
CallFonts ==
    /\ pc = "fonts"
    /\ LET r == fonts(doc)
       IN  IF r.raised
           THEN /\ pc' = "raised"
                /\ raised' = "fonts"
                /\ UNCHANGED <<font_counts, styles>>
           ELSE /\ pc' = "font_tags"
                /\ font_counts' = r.font_counts
                /\ styles' = r.styles
                /\ UNCHANGED raised
    /\ UNCHANGED <<doc, tags, data, extracted_data, json_data, output_file, hp, hp_pos>>

\* tags = font_tags(font_counts, styles)
CallFontTags ==
    /\ pc = "font_tags"
    /\ tags' = font_tags(font_counts, styles)
    /\ pc' = "headers_para"
    /\ UNCHANGED <<doc, font_counts, styles, data, extracted_data, json_data,
                   output_file, raised, hp, hp_pos>>

\* data = headers_para(doc, tags)
CallHeadersPara ==
    /\ pc = "headers_para"
    /\ data' = headers_para(doc, tags)
    /\ pc' = "extract_data"
    /\ UNCHANGED <<doc, font_counts, styles, tags, extracted_data, json_data,
                   output_file, raised, hp, hp_pos>>

\* extracted_data = extract_data(data)
CallExtractData ==
    /\ pc = "extract_data"
    /\ extracted_data' = extract_data(data)
    /\ pc' = "data_tojson"
    /\ UNCHANGED <<doc, font_counts, styles, tags, data, json_data, output_file,
                   raised, hp, hp_pos>>

\* CallDataToJson inside a try/except that goes on to the output
CallDataToJson_Swallow ==
    /\ pc = "data_tojson"
    /\ json_data' = data_tojson(extracted_data).json
    /\ pc' = "open"
    /\ UNCHANGED <<doc, font_counts, styles, tags, data, extracted_data, output_file,
                   raised, hp, hp_pos>>

\* json_data = data_tojson(extracted_data)
CallDataToJson ==
    /\ pc = "data_tojson"
    /\ LET r == data_tojson(extracted_data)
       IN  IF r.raised
           THEN /\ pc' = "raised"
                /\ raised' = "data_tojson"
                /\ UNCHANGED json_data
           ELSE /\ pc' = "open"
                /\ json_data' = r.json
                /\ UNCHANGED raised
    /\ UNCHANGED <<doc, font_counts, styles, tags, data, extracted_data, output_file,
                   hp, hp_pos>>

\* with open(output_file, 'w', encoding='utf-8') as f
OpenOutput ==
    /\ pc = "open"
    /\ output_file' = "open"
    /\ pc' = "dump"
    /\ UNCHANGED <<doc, font_counts, styles, tags, data, extracted_data, json_data,
                   raised, hp, hp_pos>>

\* json.dump(json_data, f, ensure_ascii=False, indent=4)
DumpJson ==
    /\ pc = "dump"
    /\ output_file' = "written"
    /\ pc' = "done"
    /\ UNCHANGED <<doc, font_counts, styles, tags, data, extracted_data, json_data,
                   raised, hp, hp_pos>>

MainSpans ==
    {[text |-> <<"J", "o">>, size |-> 180],
     [text |-> <<"E", "d">>, size |-> 160],
     [text |-> <<"M", "a", "y">>, size |-> 100]}

Init == \E d \in Docs(MainSpans, Breaks, MaxSpans) : Start(d, "fonts", <<>>, <<>>)

Next ==
    \/ CallFonts
    \/ CallFontTags
    \/ CallHeadersPara
    \/ CallExtractData
    \/ CallDataToJson
    \/ OpenOutput
    \/ DumpJson

Spec == Init /\ [][Next]_vars

\* ------------------------------------------- headers_para, span by span

HPUnchanged ==
    UNCHANGED <<pc, doc, font_counts, styles, tags, data, extracted_data, json_data,
                output_file, raised>>

HPAt(kind) ==
    /\ pc = "headers_para"
    /\ hp_pos < Len(Events(doc))
    /\ Events(doc)[hp_pos + 1].kind = kind

\* for b in blocks: block_string = ""
EnterBlock ==
    /\ HPAt("block")
    /\ hp' = HPEnterBlock(hp)
    /\ hp_pos' = hp_pos + 1
    /\ HPUnchanged

\* for s in l["spans"]: one span
ProcessSpan ==
    /\ HPAt("span")
    /\ hp' = HPSpan(hp, Events(doc)[hp_pos + 1].s, tags)
    /\ hp_pos' = hp_pos + 1
    /\ HPUnchanged

\* the end of "for l in b['lines']" for one line
EndLine ==
    /\ HPAt("eol")
    /\ hp' = HPEndLine(hp)
    /\ hp_pos' = hp_pos + 1
    /\ HPUnchanged

\* the end of a block
EndBlock ==
    /\ HPAt("eob")
    /\ hp' = HPEndBlock(hp)
    /\ hp_pos' = hp_pos + 1
    /\ HPUnchanged

\* return header_para
ReturnHeaderPara ==
    /\ pc = "headers_para"
    /\ hp_pos = Len(Events(doc))
    /\ data' = hp.header_para
    /\ pc' = "extract_data"
    /\ UNCHANGED <<doc, font_counts, styles, tags, extracted_data, json_data,
                   output_file, raised, hp, hp_pos>>

RunSpans ==
    {[text |-> <<"J", "o">>, size |-> 180],
     [text |-> <<"a">>, size |-> 100],
     [text |-> <<" ">>, size |-> 100]}

InitAssemble ==
    \E d \in Docs(RunSpans, Breaks, MaxRunSpans) : Start(d, "fonts", <<>>, <<>>)

NextAssemble ==
    \/ CallFonts
    \/ CallFontTags
    \/ EnterBlock
    \/ ProcessSpan
    \/ EndLine
    \/ EndBlock
    \/ ReturnHeaderPara

SpecAssemble == InitAssemble /\ [][NextAssemble]_vars

\* ------------------------------------------------ fonts and font_tags alone

TagSpans ==
    {[text |-> <<"a">>, size |-> 80],
     [text |-> <<"a">>, size |-> 105],
     [text |-> <<"a">>, size |-> 120],
     [text |-> <<"a">>, size |-> 180]}

InitTags ==
    \E d \in Docs(TagSpans, {"block"}, MaxTagSpans) : Start(d, "fonts", <<>>, <<>>)

NextTags ==
    \/ CallFonts
    \/ CallFontTags

SpecTags == InitTags /\ [][NextTags]_vars

\* ------------------------------------------------------ extract_data alone

SegLines ==
    {<<"<", "h", "1", ">", "A", "|">>,
     <<"<", "p", ">", "b", "|">>,
     <<"<", "s", "1", ">", "c", "|">>,
     <<"<", "h", "3", ">", "d", "|">>}

InitSeg ==
    \E dat \in UNION {[1..n -> SegLines] : n \in 0..MaxData} :
        Start(<< <<>> >>, "extract_data", dat, <<>>)

NextSeg == CallExtractData

SpecSeg == InitSeg /\ [][NextSeg]_vars

\* ------------------------------------------------------- data_tojson alone

GroupHeads ==
    {<<"<", "h", "1", ">", "J", "o", "|">>,
     <<"<", "h", "2", ">", "E", "d", "|">>,
     <<"<", "h", "2", ">">> \o Skills \o <<Pipe>>}

GroupLines ==
    {<<"<", "p", ">", "J", "u", "n", "e", " ", "2", "0", "1", "9", " ", "-", " ", "A", "u", "g", "u", "s", "t", " ", "2", "0", "2", "1", " ", "x", "|">>,
     <<"<", "p", ">", "M", "a", "y", " ", "2", "0", "2", "0", " ", "y", "|">>,
     <<"<", "p", ">", "M", "a", "y", "|">>,
     <<"<", "p", ">", "z", "|">>,
     <<"<", "s", "1", ">", "w", "|">>,
     <<"<", "p", ">", "L", ":", "P", "y", "|", "T", ":", "G", "i", "t", "|">>}

InitJson ==
    \E h \in GroupHeads :
        \E ls \in UNION {[1..n -> GroupLines] : n \in 0..MaxGroupLines} :
            Start(<< <<>> >>, "data_tojson", <<>>, << <<h>> \o ls >>)

NextJson == CallDataToJson

SpecJson == InitJson /\ [][NextJson]_vars

\* ----------------------------------------------------------------- claims

\* the sizes of the spans of a document, and how many spans have size x
SizesOf(d) == {SpansOf(d)[i].size : i \in 1..Len(SpansOf(d))}

SizeCount(d, x) == Cardinality({i \in 1..Len(SpansOf(d)) : SpansOf(d)[i].size = x})

FirstAt(d, x) == CHOOSE i \in 1..Len(SpansOf(d)) :
                     /\ SpansOf(d)[i].size = x
                     /\ \A j \in 1..(i - 1) : SpansOf(d)[j].size # x

\* the paragraph size: the most used size, the one met first among equals
ParagraphSize(d) ==
    CHOOSE x \in SizesOf(d) :
        \A y \in SizesOf(d) \ {x} :
            \/ SizeCount(d, x) > SizeCount(d, y)
            \/ SizeCount(d, x) = SizeCount(d, y) /\ FirstAt(d, x) < FirstAt(d, y)

IsHeadTag(t) == Len(t) >= 4 /\ t[1] = "<" /\ t[2] = "h" /\ t[Len(t)] = ">"

IsSubTag(t) == Len(t) >= 4 /\ t[1] = "<" /\ t[2] = "s" /\ t[Len(t)] = ">"

Tagged == pc = "headers_para" /\ hp_pos = 0

\* C1: the table font_tags returns for the histogram of a document with at
\* least one span maps exactly one size to '<p>'; every size tagged '<hN>' is
\* greater than the paragraph size and every size tagged '<sN>' is less.
C1_TagInvariant ==
    Tagged =>
        /\ Cardinality({x \in DOMAIN tags : tags[x] = ParaTag}) = 1
        /\ tags[ParagraphSize(doc)] = ParaTag
        /\ \A x \in DOMAIN tags :
               /\ IsHeadTag(tags[x]) => x > ParagraphSize(doc)
               /\ IsSubTag(tags[x]) => x < ParagraphSize(doc)

C1_Witness ==
    /\ Tagged
    /\ \E x \in DOMAIN tags : IsHeadTag(tags[x])
    /\ \E x \in DOMAIN tags : IsSubTag(tags[x])

SizesAbove(d) == {x \in SizesOf(d) : x > ParagraphSize(d)}

SizesBelow(d) == {x \in SizesOf(d) : x < ParagraphSize(d)}

\* C10: every size of the document has a tag; the k sizes above the paragraph
\* size are '<h1>' ... '<hk>' from the largest down and the m sizes below it
\* '<s1>' ... '<sm>' from the largest down, so distinct sizes have distinct tags.
C10_RankedTags ==
    Tagged =>
        /\ DOMAIN tags = SizesOf(doc)
        /\ \A x \in SizesAbove(doc) :
               tags[x] = HeadTag(Cardinality({y \in SizesAbove(doc) : y >= x}))
        /\ \A x \in SizesBelow(doc) :
               tags[x] = SubTag(Cardinality({y \in SizesBelow(doc) : y >= x}))
        /\ \A x, y \in DOMAIN tags : x # y => tags[x] # tags[y]

C10_Witness ==
    /\ Tagged
    /\ Cardinality(SizesAbove(doc)) >= 2
    /\ Cardinality(SizesBelow(doc)) >= 1

\* a TaggedLine: the tag of a size of the table, then text with a character
\* that is neither white space nor a sentinel
IsTaggedLine(l) ==
    \E x \in DOMAIN tags :
        /\ StartsAt(l, tags[x], 0)
        /\ \E k \in (Len(tags[x]) + 1)..Len(l) : l[k] \notin WhiteSpace \cup {Pipe}

\* C3: every element of the list headers_para returns is a TaggedLine: none
\* is empty and none consists of '|' sentinels alone.
C3_OnlyTaggedLines ==
    pc = "extract_data" => \A i \in 1..Len(data) : IsTaggedLine(data[i])

\* C8: a span that is not white space, has the size of the span before it and
\* meets a run made of '|' only leaves the run equal to its tag and its text.
C8_RestartOnPipes ==
    [][(/\ HPAt("span")
        /\ Strip(Events(doc)[hp_pos + 1].s.text) # <<>>
        /\ ~hp.first
        /\ Events(doc)[hp_pos + 1].s.size = hp.previous_s.size
        /\ hp.block_string # <<>>
        /\ AllPipes(hp.block_string))
       => hp'.block_string = tags[Events(doc)[hp_pos + 1].s.size]
                                 \o Events(doc)[hp_pos + 1].s.text]_vars

\* the 0-based places of the lines of dat that contain '<h'
HeadingPlaces(dat) == {i \in 0..(Len(dat) - 1) : Contains(dat[i + 1], TagH)}

\* the lines of dat from place a up to the next heading place or the end
Scope(dat, a) ==
    LET later == {b \in HeadingPlaces(dat) : b > a}
        stop  == IF later = {} THEN Len(dat)
                 ELSE CHOOSE b \in later : \A c \in later : b <= c
    IN  SubSeq(dat, a + 1, stop)

Segmented == pc = "data_tojson" /\ json_data = <<>> /\ raised = "none"

\* C2: the groups extract_data returns, joined in order, are the lines of the
\* input that contain '<h1>', '<h2>' or '<p>', and there is one group for each
\* line that contains '<h', holding the kept lines from it to the next such line.
C2_GroupsPartitionKept ==
    Segmented =>
        /\ Concat(extracted_data) = SelectSeq(data, Kept)
        /\ Len(extracted_data) = Cardinality(HeadingPlaces(data))
        /\ \A a \in HeadingPlaces(data) :
               extracted_data[Cardinality({b \in HeadingPlaces(data) : b <= a})]
                   = SelectSeq(Scope(data, a), Kept)

\* C9: every line of every group extract_data returns contains '<h1>', '<h2>'
\* or '<p>'.
C9_GroupLinesKept ==
    Segmented =>
        \A g \in 1..Len(extracted_data) :
            \A i \in 1..Len(extracted_data[g]) : Kept(extracted_data[g][i])

\* the groups of extracted_data that data_tojson reads as a section that is
\* not the skills section, and as the identity group; a later group that
\* assigns the same key of json_data replaces what an earlier one stored
Assigns(g, key) ==
    /\ g # <<>>
    /\ \/ Contains(g[1], TagH1) /\ key \in {KeyName, KeyPhone, KeyEmail, KeyAddress}
       \/ ~Contains(g[1], TagH1) /\ Contains(g[1], TagH2) /\ key = Name(g)

IsSection(g) == g # <<>> /\ ~Contains(g[1], TagH1) /\ Contains(g[1], TagH2)

DatedSections ==
    {n \in 1..Len(extracted_data) :
        /\ IsSection(extracted_data[n])
        /\ Name(extracted_data[n]) # Skills
        /\ \A m \in (n + 1)..Len(extracted_data) :
               ~Assigns(extracted_data[m], Name(extracted_data[n]))}

SectionOf(n) == json_data[Name(extracted_data[n])]

\* a paragraph line of the group holds a month name
HasMonthLine(g) == \E i \in 2..Len(g) : Contains(g[i], ParaTag) /\ HasMonth(g[i])

Returned == pc = "open"

\* C4: after data_tojson has returned, in a section that is not the skills
\* section and whose group has a line after its heading, every date period
\* has a 'details' field.
C4_PeriodsHaveDetails ==
    Returned =>
        \A n \in DatedSections :
            Len(extracted_data[n]) >= 2 =>
                /\ SectionOf(n) # <<>>
                /\ \A dp \in DOMAIN SectionOf(n) : "details" \in DOMAIN SectionOf(n)[dp]

C4_Witness ==
    /\ Returned
    /\ \E n \in DatedSections : Cardinality(DOMAIN SectionOf(n)) >= 2

\* every line after the heading is a paragraph line, as in a group that
\* extract_data has filtered to the end
AllParagraphs(g) == \A i \in 2..Len(g) : Contains(g[i], ParaTag)

\* C5 as claimed: every period entry of a section that is not the skills
\* section holds both 'date' and 'details' (read here on the groups whose lines
\* are all paragraph lines, with or without a month name).
C5_PeriodsHaveDateAndDetails ==
    Returned =>
        \A n \in DatedSections :
            AllParagraphs(extracted_data[n]) =>
                \A dp \in DOMAIN SectionOf(n) :
                    {"date", "details"} \subseteq DOMAIN SectionOf(n)[dp]

\* C5 as amended: every period entry of a section that is not the skills
\* section holds 'details'; it holds 'date' exactly when a paragraph line of
\* the group contains a month name, and a group with lines but no such line
\* yields the one entry 1.
C5_DateOnlyFromMonthLines ==
    Returned =>
        \A n \in DatedSections :
            /\ \A dp \in DOMAIN SectionOf(n) :
                   /\ "details" \in DOMAIN SectionOf(n)[dp]
                   /\ "date" \in DOMAIN SectionOf(n)[dp] <=> HasMonthLine(extracted_data[n])
            /\ (Len(extracted_data[n]) >= 2 /\ ~HasMonthLine(extracted_data[n]))
                   => DOMAIN SectionOf(n) = {1}

C5_Witness ==
    /\ Returned
    /\ \E n \in DatedSections :
           /\ Len(extracted_data[n]) >= 2
           /\ AllParagraphs(extracted_data[n])
           /\ ~HasMonthLine(extracted_data[n])
           /\ DOMAIN SectionOf(n) = {1}
           /\ DOMAIN SectionOf(n)[1] = {"details"}

\* C6: the output file is opened and written only after fonts, font_tags,
\* headers_para, extract_data and data_tojson have returned; a run in which
\* one of them raises leaves the file untouched.
C6_OutputOnlyAfterSuccess ==
    /\ output_file # "untouched" =>
           /\ pc \in {"dump", "done"}
           /\ raised = "none"
           /\ ~fonts(doc).raised
           /\ tags = font_tags(fonts(doc).font_counts, fonts(doc).styles)
           /\ data = headers_para(doc, tags)
           /\ extracted_data = extract_data(data)
           /\ ~data_tojson(extracted_data).raised
           /\ json_data = data_tojson(extracted_data).json
    /\ raised # "none" => pc = "raised" /\ output_file = "untouched"

\* data_tojson raised on a month line without a date
C6_Witness ==
    /\ raised = "data_tojson"
    /\ output_file = "untouched"
    /\ \E n \in 1..Len(extracted_data) :
           /\ IsSection(extracted_data[n])
           /\ \E i \in 2..Len(extracted_data[n]) :
                  /\ Contains(extracted_data[n][i], ParaTag)
                  /\ HasMonth(extracted_data[n][i])
                  /\ FindAll(extracted_data[n][i], 0) = <<>>

\* the text of a heading line behind its 4-character tag, up to its first '|'
\* or, without one, to its end
HeadingText(l) ==
    IF Contains(l, <<Pipe>>) THEN SubSeq(l, 5, Find(l, <<Pipe>>))
    ELSE SubSeq(l, 5, Len(l))

IdentityGroups ==
    {n \in 1..Len(extracted_data) :
        /\ extracted_data[n] # <<>>
        /\ Contains(extracted_data[n][1], TagH1)
        /\ \A m \in (n + 1)..Len(extracted_data) : ~Assigns(extracted_data[m], KeyName)}

\* C7: 'name' is the text of the first line of the '<h1>' group behind its
\* tag, up to the first '|' of the line, or to its end when it has none.
C7_NameIsHeadingText ==
    Returned =>
        \A n \in IdentityGroups :
            json_data[KeyName] = HeadingText(extracted_data[n][1])

====
